---- MODULE Spec2Model ----
(***************************************************************************)
(* A model of the Avro schema deserializer of avro-schema (src/de.rs) and  *)
(* of the schema data model it builds (src/lib.rs).                        *)
(*                                                                         *)
(* The decoder is a pure function of one serde_json::Value.  The state is  *)
(* the value handed to the decoder, which entry point was called on it     *)
(* (Schema::deserialize or Field::deserialize) and the outcome of the      *)
(* call: Ok(value), Err(message), or a panic (the todo!() of visit_map).   *)
(***************************************************************************)
EXTENDS Integers, Sequences, FiniteSets, TLC

VARIABLES input, op, result

vars == <<input, op, result>>

(***************************************************************************)
(* Bounds of the model.                                                    *)
(***************************************************************************)
\* longest JSON array generated (union alternatives, fields, aliases)
MaxLen == 2
\* nesting depth of the schemas generated below the top-level value
MaxDepth == 1

(***************************************************************************)
(* serde_json::Value.  A JSON object is a function from its keys.          *)
(***************************************************************************)
JNull == [k |-> "null"]
JBool(b) == [k |-> "bool", b |-> b]
\* an integer number
JNum(n) == [k |-> "num", n |-> n]
\* a number with a fractional part
JFloat == [k |-> "float"]
JStr(s) == [k |-> "str", s |-> s]
JArr(a) == [k |-> "arr", a |-> a]
JObj(m) == [k |-> "obj", m |-> m]

(***************************************************************************)
(* Result<T, E>, Option<T> and a panic that unwinds through every caller.  *)
(***************************************************************************)
Ok(v) == [tag |-> "ok", val |-> v]
Err(msg) == [tag |-> "err", msg |-> msg]
Panic(msg) == [tag |-> "panic", msg |-> msg]
None == <<>>
Some(v) == <<v>>

(***************************************************************************)
(* The data model of src/lib.rs.                                           *)
(***************************************************************************)
PrimitiveNames ==
    {"Null", "Boolean", "Int", "Long", "Float", "Double", "Bytes", "String"}

Primitive(t) == [t |-> t]

Order == {"Ascending", "Descending", "Ignore"}

Field(name, doc, schema, default, order, aliases) ==
    [name |-> name, doc |-> doc, schema |-> schema, default |-> default,
     order |-> order, aliases |-> aliases]

Record(name, namespace, doc, aliases, fields) ==
    [t |-> "Record", name |-> name, namespace |-> namespace, doc |-> doc,
     aliases |-> aliases, fields |-> fields]

Fixed(name, namespace, doc, aliases, size) ==
    [t |-> "Fixed", name |-> name, namespace |-> namespace, doc |-> doc,
     aliases |-> aliases, size |-> size]

Enum(name, namespace, aliases, doc, symbols, default) ==
    [t |-> "Enum", name |-> name, namespace |-> namespace,
     aliases |-> aliases, doc |-> doc, symbols |-> symbols,
     default |-> default]

Array(schema) == [t |-> "Array", item |-> schema]
Map(schema) == [t |-> "Map", item |-> schema]
Union(schemas) == [t |-> "Union", alts |-> schemas]

(***************************************************************************)
(* Helpers of the translation.                                             *)
(***************************************************************************)
\* HashMap::remove: the map without the key
Without(data, key) == [x \in (DOMAIN data) \ {key} |-> data[x]]

\* Iterator::collect into Result<Vec<_>, _>, and a loop that leaves at the
\* first `?`: the first element that is not Ok decides, else the Ok values.
Collect(rs) ==
    LET bad == {i \in DOMAIN rs : rs[i].tag # "ok"}
    IN  IF bad = {}
        THEN Ok([i \in DOMAIN rs |-> rs[i].val])
        ELSE rs[CHOOSE i \in bad : \A j \in bad : i <= j]

\* format!("{} must be a string", key)
MustBeString(key) ==
    CASE key = "name" -> "name must be a string"
      [] key = "namespace" -> "namespace must be a string"
      [] key = "doc" -> "doc must be a string"
      [] key = "aliases" -> "aliases must be a string"
      [] key = "symbols" -> "symbols must be a string"
      [] key = "default" -> "default must be a string"
      [] key = "fields" -> "fields must be a string"
      [] key = "order" -> "order must be a string"

\* serde's Error::invalid_type(unexpected, &visitor): the visitor's `expecting`
InvalidTypeSchema ==
    "invalid type: expected a string, array or map describing an Avro schema"
InvalidTypeField == "invalid type: expected a map describing an Avro field"

\* serde_json::from_value::<usize>
from_value_usize(x) ==
    IF x.k = "num"
    THEN IF x.n >= 0 THEN Ok(x.n) ELSE Err("invalid value: expected usize")
    ELSE Err("invalid type: expected usize")

(***************************************************************************)
(* src/de.rs                                                               *)
(***************************************************************************)
RECURSIVE Schema_deserialize(_)
RECURSIVE Field_deserialize(_)

\* to_primitive with "long" resolved to the arm of "int"
to_primitive_long_as_int(v) ==
    CASE v = "null" -> Some(Primitive("Null"))
      [] v = "boolean" -> Some(Primitive("Boolean"))
      [] v = "string" -> Some(Primitive("String"))
      [] v = "bytes" -> Some(Primitive("Bytes"))
      [] v \in {"int", "long"} -> Some(Primitive("Int"))
      [] v = "float" -> Some(Primitive("Float"))
      [] v = "double" -> Some(Primitive("Double"))
      [] OTHER -> None

to_primitive(v) ==
    CASE v = "null" -> Some(Primitive("Null"))
      [] v = "boolean" -> Some(Primitive("Boolean"))
      [] v = "string" -> Some(Primitive("String"))
      [] v = "bytes" -> Some(Primitive("Bytes"))
      [] v = "int" -> Some(Primitive("Int"))
      [] v = "long" -> Some(Primitive("Long"))
      [] v = "float" -> Some(Primitive("Float"))
      [] v = "double" -> Some(Primitive("Double"))
      [] OTHER -> None

get_type(map) ==
    IF "type" \in DOMAIN map
    THEN IF map["type"].k = "str"
         THEN Ok(map["type"].s)
         ELSE Err("type must be a string")
    ELSE Err("missing field type")

as_string(v, helper) ==
    IF v.k = "str" THEN Ok(v.s) ELSE Err(MustBeString(helper))

remove_string(data, key) ==
    IF key \in DOMAIN data
    THEN LET r == as_string(data[key], key)
         IN  IF r.tag = "ok" THEN Ok(Some(r.val)) ELSE r
    ELSE Ok(None)

\* remove_vec_string collecting the strings from the back of the array
remove_vec_string_reversed(data, key) ==
    IF key \in DOMAIN data
    THEN IF data[key].k = "arr"
         THEN LET a == data[key].a
              IN  Collect([i \in DOMAIN a |->
                              as_string(a[Len(a) + 1 - i], key)])
         ELSE Err(MustBeString(key))
    ELSE Ok(<<>>)

remove_vec_string(data, key) ==
    IF key \in DOMAIN data
    THEN IF data[key].k = "arr"
         THEN Collect([i \in DOMAIN data[key].a |->
                          as_string(data[key].a[i], key)])
         ELSE Err(MustBeString(key))
    ELSE Ok(<<>>)

\* to_enum with a missing name defaulted (unwrap_or_default) instead of refused
to_enum_default_name(data) ==
    LET name == remove_string(data, "name")
        namespace == remove_string(data, "namespace")
        aliases == remove_vec_string(data, "aliases")
        doc == remove_string(data, "doc")
        symbols == remove_vec_string(data, "symbols")
        default == remove_string(data, "default")
    IN  IF name.tag # "ok" THEN name
        ELSE IF namespace.tag # "ok" THEN namespace
        ELSE IF aliases.tag # "ok" THEN aliases
        ELSE IF doc.tag # "ok" THEN doc
        ELSE IF symbols.tag # "ok" THEN symbols
        ELSE IF default.tag # "ok" THEN default
        ELSE Ok(Enum(IF name.val = None THEN "" ELSE name.val[1],
                     namespace.val, aliases.val, doc.val, symbols.val,
                     default.val))

to_enum(data) ==
    LET name == remove_string(data, "name")
        d1 == Without(data, "name")
        namespace == remove_string(d1, "namespace")
        d2 == Without(d1, "namespace")
        aliases == remove_vec_string(d2, "aliases")
        d3 == Without(d2, "aliases")
        doc == remove_string(d3, "doc")
        d4 == Without(d3, "doc")
        symbols == remove_vec_string(d4, "symbols")
        d5 == Without(d4, "symbols")
        default == remove_string(d5, "default")
    IN  IF name.tag # "ok" THEN name
        ELSE IF name.val = None THEN Err("name is required in enum")
        ELSE IF namespace.tag # "ok" THEN namespace
        ELSE IF aliases.tag # "ok" THEN aliases
        ELSE IF doc.tag # "ok" THEN doc
        ELSE IF symbols.tag # "ok" THEN symbols
        ELSE IF default.tag # "ok" THEN default
        ELSE Ok(Enum(name.val[1], namespace.val, aliases.val, doc.val,
                     symbols.val, default.val))

\* to_map building the variant of to_array
to_map_as_array(data) ==
    IF "values" \notin DOMAIN data
    THEN Err("values is required in a map")
    ELSE LET schema == Schema_deserialize(data["values"])
         IN  IF schema.tag # "ok" THEN schema ELSE Ok(Array(schema.val))

to_map(data) ==
    IF "values" \notin DOMAIN data
    THEN Err("values is required in a map")
    ELSE LET schema == Schema_deserialize(data["values"])
         IN  IF schema.tag # "ok" THEN schema ELSE Ok(Map(schema.val))

\* to_schema dropping the error of the nested decoder (.ok()) instead of
\* returning it
to_schema_lenient(data, key) ==
    IF key \in DOMAIN data
    THEN LET schema == Schema_deserialize(data[key])
         IN  IF schema.tag = "ok" THEN Ok(Some(schema.val)) ELSE Ok(None)
    ELSE Ok(None)

to_schema(data, key) ==
    IF key \in DOMAIN data
    THEN LET schema == Schema_deserialize(data[key])
         IN  IF schema.tag = "ok" THEN Ok(Some(schema.val)) ELSE schema
    ELSE Ok(None)

to_array(data) ==
    LET schema == to_schema(data, "items")
    IN  IF schema.tag # "ok" THEN schema
        ELSE IF schema.val = None THEN Err("items is required in an array")
        ELSE Ok(Array(schema.val[1]))

to_field(data) == Field_deserialize(data)

\* to_vec_fields collecting the fields from the back of the array
to_vec_fields_reversed(data, key) ==
    IF key \in DOMAIN data
    THEN IF data[key].k = "arr"
         THEN LET a == data[key].a
              IN  Collect([i \in DOMAIN a |-> to_field(a[Len(a) + 1 - i])])
         ELSE Err(MustBeString(key))
    ELSE Ok(<<>>)

to_vec_fields(data, key) ==
    IF key \in DOMAIN data
    THEN IF data[key].k = "arr"
         THEN Collect([i \in DOMAIN data[key].a |-> to_field(data[key].a[i])])
         ELSE Err(MustBeString(key))
    ELSE Ok(<<>>)

to_record(data) ==
    LET name == remove_string(data, "name")
        d1 == Without(data, "name")
        namespace == remove_string(d1, "namespace")
        d2 == Without(d1, "namespace")
        aliases == remove_vec_string(d2, "aliases")
        d3 == Without(d2, "aliases")
        doc == remove_string(d3, "doc")
        d4 == Without(d3, "doc")
        fields == to_vec_fields(d4, "fields")
    IN  IF name.tag # "ok" THEN name
        ELSE IF name.val = None THEN Err("name is required in enum")
        ELSE IF namespace.tag # "ok" THEN namespace
        ELSE IF aliases.tag # "ok" THEN aliases
        ELSE IF doc.tag # "ok" THEN doc
        ELSE IF fields.tag # "ok" THEN fields
        ELSE Ok(Record(name.val[1], namespace.val, doc.val, aliases.val,
                       fields.val))

to_fixed(data) ==
    LET size == IF "size" \in DOMAIN data
                THEN from_value_usize(data["size"])
                ELSE Err("name is required in enum")
        d1 == Without(data, "size")
        name == remove_string(d1, "name")
        d2 == Without(d1, "name")
        namespace == remove_string(d2, "namespace")
        d3 == Without(d2, "namespace")
        aliases == remove_vec_string(d3, "aliases")
        d4 == Without(d3, "aliases")
        doc == remove_string(d4, "doc")
    IN  IF size.tag # "ok" THEN size
        ELSE IF name.tag # "ok" THEN name
        ELSE IF name.val = None THEN Err("name is required in enum")
        ELSE IF namespace.tag # "ok" THEN namespace
        ELSE IF aliases.tag # "ok" THEN aliases
        ELSE IF doc.tag # "ok" THEN doc
        ELSE Ok(Fixed(name.val[1], namespace.val, doc.val, aliases.val,
                      size.val))

to_order(data, key) ==
    LET x == remove_string(data, key)
    IN  IF x.tag # "ok" THEN x
        ELSE IF x.val = None THEN Ok(None)
        ELSE CASE x.val[1] = "ascending" -> Ok(Some("Ascending"))
               [] x.val[1] = "descending" -> Ok(Some("Descending"))
               [] x.val[1] = "ignore" -> Ok(Some("Ignore"))
               [] OTHER ->
                    Err("order can only be one of {ascending, descending, ignore}")

SchemaVisitor_visit_str(v) ==
    LET p == to_primitive(v)
    IN  IF p = None
        THEN Err("string must be a valid primitive Schema")
        ELSE Ok(p[1])

\* visit_seq leaving out an alternative equal to the one before it
SchemaVisitor_visit_seq_dedup(seq) ==
    LET vec == Collect([i \in DOMAIN seq |-> Schema_deserialize(seq[i])])
        keep == SelectSeq([i \in DOMAIN seq |-> i],
                          LAMBDA i : i = 1 \/ vec.val[i] # vec.val[i - 1])
    IN  IF vec.tag # "ok" THEN vec
        ELSE Ok(Union([j \in DOMAIN keep |-> vec.val[keep[j]]]))

SchemaVisitor_visit_seq(seq) ==
    LET vec == Collect([i \in DOMAIN seq |-> Schema_deserialize(seq[i])])
    IN  IF vec.tag # "ok" THEN vec ELSE Ok(Union(vec.val))

SchemaVisitor_visit_map(access) ==
    LET type_ == get_type(access)
        map == Without(access, "type")
    IN  IF type_.tag # "ok" THEN type_
        ELSE IF to_primitive(type_.val) # None
        THEN Ok(to_primitive(type_.val)[1])
        ELSE CASE type_.val = "enum" -> to_enum(map)
               [] type_.val = "map" -> to_map(map)
               [] type_.val = "array" -> to_array(map)
               [] type_.val = "record" -> to_record(map)
               [] type_.val = "fixed" -> to_fixed(map)
               [] OTHER -> Panic(type_.val)

\* impl Deserialize for Schema, on a serde_json::Value: deserialize_any hands
\* a string to visit_str, an array to visit_seq, an object to visit_map, and
\* any other value to a visit method SchemaVisitor leaves at serde's default.
Schema_deserialize(v) ==
    CASE v.k = "str" -> SchemaVisitor_visit_str(v.s)
      [] v.k = "arr" -> SchemaVisitor_visit_seq(v.a)
      [] v.k = "obj" -> SchemaVisitor_visit_map(v.m)
      [] OTHER -> Err(InvalidTypeSchema)

FieldVisitor_visit_map(access) ==
    LET name == remove_string(access, "name")
        d1 == Without(access, "name")
        doc == remove_string(d1, "doc")
        d2 == Without(d1, "doc")
        schema == to_schema(d2, "type")
        d3 == Without(d2, "type")
        default == to_schema(d3, "default")
        d4 == Without(d3, "default")
        order == to_order(d4, "order")
        d5 == Without(d4, "order")
        aliases == remove_vec_string(d5, "aliases")
    IN  IF name.tag # "ok" THEN name
        ELSE IF name.val = None THEN Err("name is required in enum")
        ELSE IF doc.tag # "ok" THEN doc
        ELSE IF schema.tag # "ok" THEN schema
        ELSE IF schema.val = None THEN Err("schema is required in Field")
        ELSE IF default.tag # "ok" THEN default
        ELSE IF order.tag # "ok" THEN order
        ELSE IF aliases.tag # "ok" THEN aliases
        ELSE Ok(Field(name.val[1], doc.val, schema.val[1], default.val,
                      order.val, aliases.val))

\* impl Deserialize for Field: deserialize_map accepts an object only
Field_deserialize(v) ==
    IF v.k = "obj" THEN FieldVisitor_visit_map(v.m) ELSE Err(InvalidTypeField)

(***************************************************************************)
(* The values the decoder is called on.  Nest(d) are the values put where  *)
(* a nested schema is expected, d levels deep; the top-level values add    *)
(* every combination of the optional keys of each kind of mapping.         *)
(***************************************************************************)
\* an object fragment holding one key, for each value; Opt adds its absence
Frag(key, Vals) == {key :> v : v \in Vals}
Opt(key, Vals) == {<<>>} \cup Frag(key, Vals)

SeqsUpTo(S, n) == UNION {[1..m -> S] : m \in 0..n}

\* the arrays of 1..n elements, all b \in Base but one x \in Deep
OneDeep(Base, Deep, n) ==
    UNION {UNION {{JArr([i \in 1..m |-> IF i = p THEN x ELSE b]) :
                      x \in Deep, b \in Base} : p \in 1..m} : m \in 1..n}

Leaf == {JStr("null"), JStr("int"), JStr("foo"), JNum(1)}

FieldOf(n, t) == JObj([name |-> JStr(n), type |-> t])

NestObj(N) ==
    {JObj(<<>>), JObj([type |-> JStr("foo")]),
     JObj([type |-> JStr("long"), items |-> JStr("foo")]),
     JObj([type |-> JStr("record")]),
     JObj([type |-> JStr("record"), name |-> JStr("")]),
     JObj([type |-> JStr("enum"), name |-> JStr("E"),
           symbols |-> JArr(<<JStr("A")>>)]),
     JObj([type |-> JStr("enum"), name |-> JStr("")]),
     JObj([type |-> JStr("fixed"), name |-> JStr("F"), size |-> JNum(2)]),
     JObj([type |-> JStr("fixed"), name |-> JStr(""), size |-> JNum(2)])}
    \cup {JObj([type |-> JStr("array"), items |-> x]) : x \in N}
    \cup {JObj([type |-> JStr("map"), values |-> x]) : x \in N}
    \cup {JObj([type |-> JStr("record"), name |-> JStr("R"),
                fields |-> JArr(<<FieldOf("f", x)>>)]) : x \in N}
    \cup {JObj([type |-> JStr("record"), name |-> JStr("R"),
                fields |-> JArr(<<JObj([name |-> JStr("f"),
                                        type |-> JStr("int"),
                                        default |-> x])>>)]) : x \in N}

RECURSIVE Nest(_)
Nest(d) ==
    IF d = 0
    THEN Leaf
    ELSE LET N == Nest(d - 1)
         IN  Leaf \cup {JArr(<<>>)}
                  \cup OneDeep({JStr("int"), JStr("null")}, N, MaxLen)
                  \cup NestObj(N)

Nested == Nest(MaxDepth)

PrimitiveStrings ==
    {"null", "boolean", "int", "long", "float", "double", "bytes", "string"}
CompositeStrings == {"record", "enum", "array", "map", "fixed"}
OtherStrings == {"R", "foo", "union", "ascending", ""}

Scalars ==
    {JNull, JBool(TRUE), JBool(FALSE), JNum(0), JNum(-1), JFloat}
    \cup {JStr(s) : s \in PrimitiveStrings \cup CompositeStrings \cup OtherStrings}

TopArrays ==
    {JArr(a) : a \in SeqsUpTo(Leaf, MaxLen)}
    \cup OneDeep({JStr("int"), JStr("null")}, Nested, MaxLen)

NameOpt == Opt("name", {JStr("R"), JStr(""), JNum(1)})
NamespaceOpt == Opt("namespace", {JStr("ns"), JNum(1)})
DocOpt == Opt("doc", {JStr("d"), JBool(TRUE)})
AliasesOpt ==
    Opt("aliases", {JArr(<<>>), JArr(<<JStr("a"), JStr("b")>>),
                    JArr(<<JStr("a"), JNum(1)>>), JStr("a")})
\* every array of at most MaxLen strings
AliasesAll ==
    Frag("aliases", {JArr(a) : a \in SeqsUpTo({JStr("a"), JStr("b")}, MaxLen)})
CommonKeys ==
    {a @@ b @@ c @@ d :
        a \in NameOpt, b \in NamespaceOpt, c \in DocOpt, d \in AliasesOpt}

\* a named type of kind t with its required keys and each array of aliases
WithAliases(t) ==
    {JObj([type |-> JStr(t), name |-> JStr("R"), size |-> JNum(2)] @@ a) :
        a \in AliasesAll}

FieldCands ==
    {FieldOf("f", JStr("int")), FieldOf("g", JStr("null")),
     FieldOf("h", JStr("foo")), JStr("f"), JObj([type |-> JStr("int")]),
     FieldOf("p", JObj([type |-> JStr("foo")]))}

TopTyped ==
    {JObj(<<>>), JObj([type |-> JNum(1)]), JObj([type |-> JNull]),
     JObj([type |-> JArr(<<>>)]), JObj([name |-> JStr("R")])}
    \cup {JObj(("type" :> JStr(t)) @@ a @@ b) :
            t \in PrimitiveStrings \cup OtherStrings,
            a \in Opt("name", {JStr("R")}),
            b \in Opt("items", {JStr("foo")})}

TopArrayMap ==
    {JObj(("type" :> JStr(t)) @@ a @@ b) :
        t \in {"array", "map"},
        a \in Opt("items", Nested \cup {JNull}),
        b \in Opt("values", {JStr("int")})}
    \cup {JObj(("type" :> JStr(t)) @@ a @@ b) :
        t \in {"array", "map"},
        a \in Opt("items", {JStr("int")}),
        b \in Opt("values", Nested \cup {JNull})}

TopEnum ==
    {JObj([type |-> JStr("enum")] @@ c @@ s @@ d) :
        c \in CommonKeys,
        s \in Opt("symbols", {JArr(<<JStr("A"), JStr("B")>>),
                              JArr(<<JNum(1)>>), JNull}),
        d \in Opt("default", {JStr("A"), JNum(1)})}

TopFixed ==
    {JObj([type |-> JStr("fixed")] @@ c @@ s) :
        c \in CommonKeys,
        s \in Opt("size", {JNum(0), JNum(2), JNum(-1), JFloat, JStr("2")})}

TopRecord ==
    {JObj([type |-> JStr("record")] @@ c @@ f) :
        c \in CommonKeys,
        f \in Opt("fields",
                  {JArr(<<>>), JStr("x"),
                   JArr(<<FieldOf("f", JStr("int"))>>),
                   JArr(<<FieldOf("f", JStr("int")), FieldOf("g", JStr("null"))>>),
                   JArr(<<FieldOf("g", JStr("null")), FieldOf("f", JStr("int"))>>),
                   JArr(<<FieldOf("h", JStr("foo"))>>)})}
    \cup {JObj([type |-> JStr("record")] @@ n @@ f) :
        n \in Opt("name", {JStr("R")}),
        f \in Frag("fields", {JArr(a) : a \in SeqsUpTo(FieldCands, MaxLen)}
                             \cup {JArr(<<FieldOf("f", x)>>) : x \in Nested})}

TopField ==
    {JObj(n @@ c @@ t @@ d @@ o @@ a) :
        n \in Opt("name", {JStr("f"), JStr(""), JNum(1)}),
        c \in DocOpt,
        t \in Opt("type", {JStr("int"), JStr("foo"), JNum(1)}),
        d \in Opt("default", {JStr("null"), JStr("foo"), JNum(1), JNull,
                              JBool(TRUE)}),
        o \in Opt("order", {JStr("ascending"), JStr("bogus")}),
        a \in Opt("aliases", {JArr(<<JStr("a"), JStr("b")>>), JStr("a")})}
    \cup {JObj([name |-> JStr("f"), type |-> JStr("int")] @@ d @@ o @@ a) :
        d \in Opt("default", {JStr("null")}),
        o \in Opt("order", {JStr("ascending"), JStr("descending"),
                            JStr("ignore"), JStr("bogus"), JStr(""),
                            JNum(1)}),
        a \in AliasesOpt \cup AliasesAll}
    \cup {JObj([name |-> JStr("f")] @@ t @@ d) :
        t \in Frag("type", Nested), d \in Opt("default", {JStr("int")})}
    \cup {JObj([name |-> JStr("f"), type |-> JStr("int")] @@ d) :
        d \in Frag("default", Nested)}

Inputs ==
    Scalars \cup TopArrays \cup Nested \cup TopTyped \cup TopArrayMap
            \cup TopEnum \cup TopFixed \cup TopRecord \cup TopField
            \cup WithAliases("record") \cup WithAliases("enum")
            \cup WithAliases("fixed")

(***************************************************************************)
(* The state machine: a value is given, and one of the two entry points    *)
(* is called on it once.                                                   *)
(***************************************************************************)
Init ==
    /\ input \in Inputs
    /\ op = "none"
    /\ result = [tag |-> "none"]

\* serde_json::from_value::<Schema>(input)
decode_schema ==
    /\ op = "none"
    /\ op' = "schema"
    /\ result' = Schema_deserialize(input)
    /\ UNCHANGED input

\* serde_json::from_value::<Field>(input)
decode_field ==
    /\ op = "none"
    /\ op' = "field"
    /\ result' = Field_deserialize(input)
    /\ UNCHANGED input

Next == decode_schema \/ decode_field

Spec == Init /\ [][Next]_vars

(***************************************************************************)
(* Vocabulary of the properties.                                           *)
(***************************************************************************)
\* The error kinds of the specification.  serde_json keeps one error type,
\* so the kind of an error is read off the message the code builds.
ErrorKind(msg) ==
    CASE msg \in {"missing field type", "name is required in enum",
                  "values is required in a map",
                  "items is required in an array",
                  "schema is required in Field"} -> "MissingField"
      [] msg \in {"string must be a valid primitive Schema",
                  "order can only be one of {ascending, descending, ignore}",
                  "invalid value: expected usize"} -> "InvalidValue"
      [] OTHER -> "TypeMismatch"

\* the primitive variant each primitive name stands for
PrimitiveVariant(s) ==
    CASE s = "null" -> "Null"
      [] s = "boolean" -> "Boolean"
      [] s = "int" -> "Int"
      [] s = "long" -> "Long"
      [] s = "float" -> "Float"
      [] s = "double" -> "Double"
      [] s = "bytes" -> "Bytes"
      [] s = "string" -> "String"

IsObj(v) == v.k = "obj"
Has(v, key) == key \in DOMAIN v.m
\* the value is a mapping whose "type" is the string t
TypeIs(v, t) ==
    /\ IsObj(v)
    /\ Has(v, "type")
    /\ v.m["type"] = JStr(t)
\* the value is a mapping whose "type" is a string other than the thirteen
\* the decoder knows
UnknownType(v) ==
    /\ IsObj(v)
    /\ Has(v, "type")
    /\ v.m["type"].k = "str"
    /\ v.m["type"].s \notin PrimitiveStrings \cup CompositeStrings

StringIfPresent(v, key) == Has(v, key) => v.m[key].k = "str"
StringsIfPresent(v, key) ==
    Has(v, key) =>
        /\ v.m[key].k = "arr"
        /\ \A i \in DOMAIN v.m[key].a : v.m[key].a[i].k = "str"

\* the strings of the "aliases" array of a mapping, in its order
InputAliases(v) ==
    IF Has(v, "aliases")
    THEN [i \in DOMAIN v.m["aliases"].a |-> v.m["aliases"].a[i].s]
    ELSE <<>>

Decodes(v) == Schema_deserialize(v).tag = "ok"

\* a (possibly empty) sequence of strings
IsStrings(a) ==
    /\ DOMAIN a = 1..Len(a)
    /\ \A i \in DOMAIN a : a[i] \in STRING

\* every Record, Enum, Fixed and Field of a schema tree has a sequence of
\* strings as its aliases
RECURSIVE AliasesAreStrings(_)
AliasesAreStrings(s) ==
    CASE s.t = "Record" ->
            /\ IsStrings(s.aliases)
            /\ \A i \in DOMAIN s.fields :
                /\ IsStrings(s.fields[i].aliases)
                /\ AliasesAreStrings(s.fields[i].schema)
                /\ \A j \in DOMAIN s.fields[i].default :
                       AliasesAreStrings(s.fields[i].default[j])
      [] s.t \in {"Enum", "Fixed"} -> IsStrings(s.aliases)
      [] s.t \in {"Array", "Map"} -> AliasesAreStrings(s.item)
      [] s.t = "Union" ->
            \A i \in DOMAIN s.alts : AliasesAreStrings(s.alts[i])
      [] OTHER -> TRUE

\* every Record, Enum and Fixed node of a schema tree has a non-empty name
RECURSIVE NamesNonEmpty(_)
NamesNonEmpty(s) ==
    CASE s.t = "Record" ->
            /\ s.name # ""
            /\ \A i \in DOMAIN s.fields :
                /\ NamesNonEmpty(s.fields[i].schema)
                /\ \A j \in DOMAIN s.fields[i].default :
                       NamesNonEmpty(s.fields[i].default[j])
      [] s.t \in {"Enum", "Fixed"} -> s.name # ""
      [] s.t \in {"Array", "Map"} -> NamesNonEmpty(s.item)
      [] s.t = "Union" -> \A i \in DOMAIN s.alts : NamesNonEmpty(s.alts[i])
      [] OTHER -> TRUE

\* a value nested in v where a schema or a field is decoded (a union
\* element, an array's items, a map's values, a record's field entry, a
\* field's type or default) fails to decode
RECURSIVE NestedFails(_)
RECURSIVE NestedInFieldFails(_)
NestedFails(v) ==
    CASE v.k = "arr" ->
            \E i \in DOMAIN v.a : ~Decodes(v.a[i]) \/ NestedFails(v.a[i])
      [] TypeIs(v, "array") /\ Has(v, "items") ->
            ~Decodes(v.m["items"]) \/ NestedFails(v.m["items"])
      [] TypeIs(v, "map") /\ Has(v, "values") ->
            ~Decodes(v.m["values"]) \/ NestedFails(v.m["values"])
      [] TypeIs(v, "record") /\ Has(v, "fields") ->
            /\ v.m["fields"].k = "arr"
            /\ \E i \in DOMAIN v.m["fields"].a :
                  \/ Field_deserialize(v.m["fields"].a[i]).tag # "ok"
                  \/ NestedInFieldFails(v.m["fields"].a[i])
      [] OTHER -> FALSE

NestedInFieldFails(e) ==
    /\ IsObj(e)
    /\ \E key \in {"type", "default"} :
          /\ Has(e, key)
          /\ ~Decodes(e.m[key]) \/ NestedFails(e.m[key])

(***************************************************************************)
(* The properties.                                                         *)
(***************************************************************************)

\* C1: decoding a mapping whose "type" is a string that is neither a
\* primitive name nor enum, map, array, record or fixed returns an
\* Unsupported error, and no call of decode_schema aborts without returning.
C1_UnsupportedTypeIsAnError ==
    op = "schema" =>
        /\ result.tag # "panic"
        /\ UnknownType(input) =>
              /\ result.tag = "err"
              /\ ErrorKind(result.msg) = "Unsupported"

\* C2: decode_schema of a bare string returns the matching primitive variant
\* for the eight primitive names and fails with InvalidValue for every other
\* string, the composite keywords and names of named types included.
C2_BareString ==
    (op = "schema" /\ input.k = "str") =>
        IF input.s \in PrimitiveStrings
        THEN result = Ok(Primitive(PrimitiveVariant(input.s)))
        ELSE /\ result = Err("string must be a valid primitive Schema")
             /\ ErrorKind(result.msg) = "InvalidValue"

C2_Witness ==
    /\ op = "schema"
    /\ input = JStr("record")
    /\ result.tag = "err"

\* C3: in every schema tree decode_schema returns, every Record, Enum and
\* Fixed node at any depth has a non-empty name.
C3_NamesAreNonEmpty ==
    (op = "schema" /\ result.tag = "ok") => NamesNonEmpty(result.val)

\* C4: decoding a mapping of type record, enum or fixed that has no "name"
\* key fails with a MissingField error, whatever other keys are present
\* (for fixed: with "size" absent or a valid size).
C4_MissingName ==
    ( /\ op = "schema"
      /\ \E t \in {"record", "enum", "fixed"} : TypeIs(input, t)
      /\ ~Has(input, "name")
      /\ (TypeIs(input, "fixed") /\ Has(input, "size")) =>
            from_value_usize(input.m["size"]).tag = "ok" )
    => /\ result.tag = "err"
       /\ ErrorKind(result.msg) = "MissingField"
       /\ result.msg = "name is required in enum"

C4_Witness ==
    /\ op = "schema"
    /\ TypeIs(input, "enum")
    /\ ~Has(input, "name")
    /\ \A key \in {"namespace", "doc", "aliases", "symbols", "default"} :
          Has(input, key)
    /\ StringIfPresent(input, "namespace")
    /\ result = Err("name is required in enum")

\* C5: decode_schema of a sequence whose elements all decode returns the
\* Union of the decoded elements, as many as the input has and in its order;
\* a nested sequence gives a nested Union and the empty sequence a Union of
\* no alternatives.
C5_UnionKeepsTheSequence ==
    ( /\ op = "schema"
      /\ input.k = "arr"
      /\ \A i \in DOMAIN input.a : Decodes(input.a[i]) )
    => /\ result.tag = "ok"
       /\ result.val.t = "Union"
       /\ Len(result.val.alts) = Len(input.a)
       /\ \A i \in DOMAIN input.a :
            /\ result.val.alts[i] = Schema_deserialize(input.a[i]).val
            /\ input.a[i].k = "arr" => result.val.alts[i].t = "Union"
            /\ input.a[i].k = "str" =>
                  result.val.alts[i] =
                      Primitive(PrimitiveVariant(input.a[i].s))

C5_Witness ==
    /\ op = "schema"
    /\ input = JArr(<<JStr("null"), JStr("int")>>)
    /\ result = Ok(Union(<<Primitive("Null"), Primitive("Int")>>))

\* C6: decode_schema returns a complete Schema or an error: when a nested
\* value at any depth fails to decode, the top-level call returns an error.
C6_NestedFailureIsAnError ==
    op = "schema" =>
        /\ result.tag \in {"ok", "err"}
        /\ NestedFails(input) => result.tag = "err"

\* C7: decoding a record mapping with a name and a "fields" sequence of
\* valid field mappings returns a Record whose fields are the decoded
\* entries, one per entry and in order, a field of only a name and a type
\* having no doc, default or order and no aliases; without "fields" the
\* Record has no fields.
C7_RecordFields ==
    ( /\ op = "schema"
      /\ TypeIs(input, "record")
      /\ Has(input, "name")
      /\ \A key \in {"name", "namespace", "doc"} : StringIfPresent(input, key)
      /\ StringsIfPresent(input, "aliases")
      /\ Has(input, "fields") =>
            /\ input.m["fields"].k = "arr"
            /\ \A i \in DOMAIN input.m["fields"].a :
                  Field_deserialize(input.m["fields"].a[i]).tag = "ok" )
    => /\ result.tag = "ok"
       /\ result.val.t = "Record"
       /\ result.val.name = input.m["name"].s
       /\ IF Has(input, "fields")
          THEN LET es == input.m["fields"].a
               IN  /\ Len(result.val.fields) = Len(es)
                   /\ \A i \in DOMAIN es :
                        /\ result.val.fields[i] = Field_deserialize(es[i]).val
                        /\ result.val.fields[i].name = es[i].m["name"].s
                        /\ DOMAIN es[i].m = {"name", "type"} =>
                              result.val.fields[i] =
                                 Field(es[i].m["name"].s, None,
                                       Schema_deserialize(es[i].m["type"]).val,
                                       None, None, <<>>)
          ELSE result.val.fields = <<>>

C7_Witness ==
    /\ op = "schema"
    /\ TypeIs(input, "record")
    /\ Has(input, "name")
    /\ input.m["name"] = JStr("R")
    /\ Has(input, "fields")
    /\ input.m["fields"] =
          JArr(<<FieldOf("g", JStr("null")), FieldOf("f", JStr("int"))>>)
    /\ result.tag = "ok"
    /\ result.val.fields =
          <<Field("g", None, Primitive("Null"), None, None, <<>>),
            Field("f", None, Primitive("Int"), None, None, <<>>)>>

\* C8: for a field mapping with a valid name and type, the decoded Field
\* has no default when "default" is absent and the decoded schema of the
\* "default" value when that decodes; decode_field fails whenever the
\* "default" value does not decode as a schema.
C8_FieldDefault ==
    ( /\ op = "field"
      /\ IsObj(input)
      /\ Has(input, "name")
      /\ input.m["name"].k = "str"
      /\ Has(input, "type")
      /\ Decodes(input.m["type"]) )
    => /\ (~Has(input, "default") /\ result.tag = "ok") =>
              result.val.default = None
       /\ (Has(input, "default") /\ Decodes(input.m["default"])) =>
              /\ result.tag = "ok" =>
                    result.val.default =
                        Some(Schema_deserialize(input.m["default"]).val)
              /\ input.m["default"].k = "str" =>
                    input.m["default"].s \in PrimitiveStrings
       /\ (Has(input, "default") /\ ~Decodes(input.m["default"])) =>
              /\ result.tag # "ok"
              /\ Schema_deserialize(input.m["default"]).tag = "err" =>
                    result.tag = "err"
       /\ ( /\ Has(input, "default") => Decodes(input.m["default"])
            /\ StringIfPresent(input, "doc")
            /\ Has(input, "order") =>
                  input.m["order"] \in {JStr("ascending"), JStr("descending"),
                                        JStr("ignore")}
            /\ StringsIfPresent(input, "aliases") )
          => result.tag = "ok"

C8_Witness ==
    /\ op = "field"
    /\ IsObj(input)
    /\ input.m = [name |-> JStr("f"), type |-> JStr("int"),
                  default |-> JNum(1)]
    /\ result = Err(InvalidTypeSchema)

\* C9: a mapping of type array with "items" X decodes to Array(S) and one of
\* type map with "values" X to Map(S), S the decoding of X, whenever X
\* decodes; without "items" an array fails with the error of the array,
\* without "values" a map with the error of the map.
C9_ArrayAndMap ==
    op = "schema" =>
        /\ TypeIs(input, "array") =>
              IF Has(input, "items")
              THEN Decodes(input.m["items"]) =>
                     result =
                        Ok(Array(Schema_deserialize(input.m["items"]).val))
              ELSE result = Err("items is required in an array")
        /\ TypeIs(input, "map") =>
              IF Has(input, "values")
              THEN Decodes(input.m["values"]) =>
                     result =
                        Ok(Map(Schema_deserialize(input.m["values"]).val))
              ELSE result = Err("values is required in a map")

C9_Witness ==
    /\ op = "schema"
    /\ input = JObj([type |-> JStr("map"), values |-> JStr("int")])
    /\ result = Ok(Map(Primitive("Int")))

\* C10: in every decoded Record, Enum, Fixed and Field, aliases is a sequence
\* of strings: empty when the mapping has no "aliases" key, else the strings
\* of the input in its order.
C10_Aliases ==
    /\ ( /\ result.tag = "ok"
         /\ \/ op = "field"
            \/ op = "schema" /\ result.val.t \in {"Record", "Enum", "Fixed"}
                             /\ \E t \in CompositeStrings : TypeIs(input, t) )
       => /\ result.val.aliases = InputAliases(input)
          /\ IsStrings(result.val.aliases)
          /\ ~Has(input, "aliases") => result.val.aliases = <<>>
    /\ (op = "schema" /\ result.tag = "ok") => AliasesAreStrings(result.val)

C10_Witness ==
    /\ op = "schema"
    /\ result.tag = "ok"
    /\ result.val.t = "Fixed"
    /\ Has(input, "aliases")
    /\ input.m["aliases"] = JArr(<<JStr("b"), JStr("a")>>)
    /\ result.val.aliases = <<"b", "a">>

====
